---- MODULE Spec2Model ----
(***************************************************************************)
(* A model of ConfigParserEnhanced: the operation tokenizer (the regex of  *)
(* regex_op_splitter and the extraction of op1 / op2), the recursive       *)
(* resolver (_parse_configuration_r with the `use` and generic handlers)   *)
(* and the lazily evaluated view (ConfigParserEnhancedDataSection).        *)
(*                                                                         *)
(* Strings of the program are sequences of one-character strings, so that  *)
(* the regex, strip() and replace() are computed character by character.   *)
(***************************************************************************)
EXTENDS Integers, Sequences, FiniteSets, TLC

VARIABLES
    tok_text,          \* regex_op_matcher: the argument `text`
    tok_m,             \* regex_op_matcher: what it returned for tok_text
    configdata,        \* self._configdata: section name -> ordered entries
    data,              \* ConfigParserEnhancedDataSection._data
    sections_checked,  \* ConfigParserEnhancedDataSection._sections_checked
    debug_level,       \* Debuggable._debug_level
    exception_control_level, \* ExceptionControl: the severity threshold
    loginfo,           \* self._loginfo
    events,            \* the exception_control_event calls of the current call
    stack,             \* the frames of _parse_configuration_r, root first
    processed_sections,\* the dict handed down the recursion (its keys)
    call,              \* the public operation in progress or last completed
    pc,                \* "idle", "walk" (frames left to run) or "next" (items loop)
    twin,              \* a second instance on the same file, while it waits
    turn               \* "solo", or which of two instances is running

vars == <<tok_text, tok_m, configdata, data, sections_checked, debug_level,
          exception_control_level, loginfo, events, stack,
          processed_sections, call, pc, twin, turn>>

tokvars == <<tok_text, tok_m>>
pairvars == <<twin, turn>>
\* what no method of the running instance touches
offvars == <<tok_text, tok_m, twin, turn>>
engvars == <<configdata, data, sections_checked, debug_level,
             exception_control_level, loginfo, events, stack,
             processed_sections, call, pc>>

-----------------------------------------------------------------------------
(* Characters and strings *)

\* Python's None, where a string is expected: a one-element sequence whose
\* element is no character, so it differs from every string.
None == <<"None">>

Letters ==
    {"a","b","c","d","e","f","g","h","i","j","k","l","m",
     "n","o","p","q","r","s","t","u","v","w","x","y","z",
     "A","B","C","D","E","F","G","H","I","J","K","L","M",
     "N","O","P","Q","R","S","T","U","V","W","X","Y","Z"}

Digits == {"0","1","2","3","4","5","6","7","8","9"}

\* the regex class [\w\d\-_]
WordChars == Letters \cup Digits \cup {"_", "-"}

\* the regex class [\w\d\-_ ]
QuotedChars == WordChars \cup {" "}

\* str.strip() and str.split() without arguments cut at whitespace
Whitespace == {" "}

RECURSIVE RunLen(_, _, _)
\* the length of the longest run of characters of class `cls` in `text`
\* that starts at position i (a greedy `[cls]*`)
RunLen(text, i, cls) ==
    IF i > Len(text) \/ text[i] \notin cls THEN 0
    ELSE 1 + RunLen(text, i + 1, cls)

RECURSIVE LStrip(_, _)
LStrip(text, cut) ==
    IF text # <<>> /\ Head(text) \in cut THEN LStrip(Tail(text), cut) ELSE text

RECURSIVE RStrip(_, _)
RStrip(text, cut) ==
    IF text # <<>> /\ text[Len(text)] \in cut
    THEN RStrip(SubSeq(text, 1, Len(text) - 1), cut) ELSE text

\* str.strip(): both ends, whitespace
Strip(text) == RStrip(LStrip(text, Whitespace), Whitespace)

\* str.strip('"')
StripQuotes(text) == RStrip(LStrip(text, {"\""}), {"\""})

\* a get_op1 that keeps the dashes as written
ReplaceDash_kept(text) == text

\* str.replace('-', '_')
ReplaceDash(text) == [i \in 1..Len(text) |-> IF text[i] = "-" THEN "_" ELSE text[i]]

\* text.split()[0] for a text that holds a non-whitespace character
FirstToken(text) ==
    LET t == LStrip(text, Whitespace)
    IN  SubSeq(t, 1, RunLen(t, 1, {t[i] : i \in 1..Len(t)} \ Whitespace))

-----------------------------------------------------------------------------
(* Operation tokenizer *)

\* No match of the regex (re.match returned None)
NoMatch == [ok |-> FALSE, g1 |-> None, g3 |-> None, g4 |-> None]

\* The regex   ^([\w\d\-_]+) ?('([\w\d\-_ ]+)'|([\w\d\-_]+)(?: .*)*)?
\* matched at the start of text. g1, g3, g4 are groups()[0], [2], [3].
\* Every quantifier is greedy and everything after group 1 is optional, so
\* the first (greedy) attempt is the match that re.match returns.
regex_op_splitter(text) ==
    LET n1 == RunLen(text, 1, WordChars)
        p  == IF n1 + 1 <= Len(text) /\ text[n1 + 1] = " " THEN n1 + 2 ELSE n1 + 1
        nq == RunLen(text, p + 1, QuotedChars)
        quoted == /\ p <= Len(text) /\ text[p] = "'"
                  /\ nq >= 1
                  /\ p + nq + 1 <= Len(text) /\ text[p + nq + 1] = "'"
        nu == RunLen(text, p, WordChars)
    IN  IF n1 = 0 THEN NoMatch
        ELSE [ok |-> TRUE,
              g1 |-> SubSeq(text, 1, n1),
              g3 |-> IF quoted THEN SubSeq(text, p + 1, p + nq) ELSE None,
              g4 |-> IF ~quoted /\ nu >= 1 THEN SubSeq(text, p, p + nu - 1) ELSE None]

\* a matcher without the comparison against the first token
regex_op_matcher_unchecked(text) == regex_op_splitter(text)

\* regex_op_matcher: the match, unless its group 1 is not the first
\* whitespace-delimited token of the text
regex_op_matcher(text) ==
    LET m == regex_op_splitter(text)
    IN  IF m.ok /\ m.g1 # FirstToken(text) THEN NoMatch ELSE m

\* a get_op1 that returns group 1 as matched
get_op1_as_matched(m) == m.g1

get_op1_from_regex_match(m) == ReplaceDash(Strip(m.g1))

\* a get_op2 that knows the quoted group only
get_op2_quoted_only(m) ==
    IF m.g3 # None /\ m.g3 # <<>> THEN Strip(m.g3) ELSE None

\* `if regex_match.groups()[2]:` is false for None and for the empty string
get_op2_from_regex_match(m) ==
    IF m.g3 # None /\ m.g3 # <<>> THEN Strip(m.g3)
    ELSE IF m.g4 # None /\ m.g4 # <<>> THEN Strip(m.g4)
    ELSE None

-----------------------------------------------------------------------------
(* Tokenizer specification: the raw keys *)

MaxKeyLen == 5

\* the characters the bounded raw keys are made of: word characters of each
\* kind (letter, dash, underscore), the space, the quote and punctuation
KeyAlphabet == {"a", "-", "_", " ", "'", "+"}

RECURSIVE SeqsUpTo(_, _)
SeqsUpTo(S, n) ==
    IF n = 0 THEN {<<>>}
    ELSE LET shorter == SeqsUpTo(S, n - 1)
         IN  shorter \cup {Append(s, c) : s \in shorter, c \in S}

\* a key as the resolver hands it to regex_op_matcher: stripped
BoundedKeys == {k \in SeqsUpTo(KeyAlphabet, MaxKeyLen) : k # <<>> /\ Strip(k) = k}

ExampleKeys ==
    { <<"u","s","e"," ","S","E","C","T","I","O","N","-","A">>,
      <<"e","n","v","v","a","r","-","p","r","e","p","e","n","d"," ",
        "P","A","T","H"," ","'","A","'">>,
      <<"e","n","v","v","a","r","-","p","r","e","p","e","n","d"," ",
        "P","A","T","H"," ","e","x","t","r","a","-","s","u","f","f","i","x">>,
      <<"u","s","e"," ","'","S","E","C","T","I","O","N"," ","C","'">>,
      <<"f","o","o","+","b","a","r">> }

\* keys made of whole tokens: words, quoted runs and punctuation, joined
\* by single spaces
MaxTokens == 3

Tokens ==
    { <<"a">>, <<"b", "-", "c">>, <<"'", "q", "'">>,
      <<"'", "q", " ", "r", "'">>, <<"+">> }

RECURSIVE Joined(_)
Joined(n) ==
    IF n = 1 THEN Tokens
    ELSE LET shorter == Joined(n - 1)
         IN  shorter \cup {k \o <<" ">> \o t : k \in shorter, t \in Tokens}

TokenKeys == Joined(MaxTokens)

TokInit ==
    /\ tok_text \in BoundedKeys \cup TokenKeys \cup ExampleKeys
    /\ tok_m = [done |-> FALSE, m |-> NoMatch, op1 |-> None, op2 |-> None]

\* _parse_configuration_r, lines 419-427, on one key
Tokenize ==
    /\ ~tok_m.done
    /\ LET m == regex_op_matcher(tok_text)
       IN  tok_m' = [done |-> TRUE, m |-> m,
                     op1 |-> IF m.ok THEN get_op1_from_regex_match(m) ELSE None,
                     op2 |-> IF m.ok THEN get_op2_from_regex_match(m) ELSE None]
    /\ UNCHANGED tok_text

-----------------------------------------------------------------------------
(* Section names, keys and values of the configurations *)

SecA == <<"A">>
SecB == <<"B">>
SecC == <<"C">>
\* a name the Section Provider does not know
SecX == <<"X">>
\* the empty string
EmptyStr == <<>>

\* {} : a dict with no key
EmptyDict == [x \in {} |-> x]

\* d[k] = v on a dict
DictPut(d, k, v) == [x \in DOMAIN d \cup {k} |-> IF x = k THEN v ELSE d[x]]

\* the key `use <target>`
UseKey(target) == <<"u", "s", "e", " ">> \o target

\* one (key, value) pair of a section, as configparser returns it
Entry(k, v) == [key |-> k, value |-> v]

-----------------------------------------------------------------------------
(* Trace collector and exception control *)

\* a collector that records at every debug level
loginfo_add_always(log, entry) == Append(log, entry)

\* _loginfo_add: appends only when the debug level is above 0
loginfo_add(log, entry) == IF debug_level > 0 THEN Append(log, entry) ELSE log

\* ExceptionControl.exception_control_event: whether the event is escalated
\* to a raised exception. The class is not part of the sources at hand; the
\* default threshold lets a WARNING pass, the high one raises it.
exception_control_raises(event_type) ==
    event_type = "WARNING" /\ exception_control_level = "high"

-----------------------------------------------------------------------------
(* The view: ConfigParserEnhancedDataSection *)

\* add_section on a section that needs no resolution: data[section] = {}
\* unless the section is there
view_add_section_reset(d, section) == DictPut(d, section, EmptyDict)

view_add_section(d, section) ==
    IF section \in DOMAIN d THEN d ELSE DictPut(d, section, EmptyDict)

\* a set that stores the value whether or not the option is present
view_set_overwrite(d, section, option, value) ==
    LET d1 == view_add_section(d, section)
    IN  DictPut(d1, section, DictPut(d1[section], option, value))

\* set on a section that needs no resolution: the section is created when
\* missing, the option is stored only when it is not present yet
view_set(d, section, option, value) ==
    LET d1 == view_add_section(d, section)
    IN  IF option \in DOMAIN d1[section] THEN d1
        ELSE DictPut(d1, section, DictPut(d1[section], option, value))

\* a KeyError that no operation lets through
Swallows_everywhere(op, exc) == exc = "KeyError"

\* which exceptions of parse_owner_section an operation catches
Swallows(op, exc) ==
    /\ exc = "KeyError"
    /\ op \in {"has_section", "options", "getitem", "items", "add_section", "set"}

NoRet == [kind |-> "none", exc |-> "none", b |-> FALSE, s |-> None]
RetBool(b) == [kind |-> "bool", exc |-> "none", b |-> b, s |-> None]
RetStr(s) == [kind |-> "str", exc |-> "none", b |-> FALSE, s |-> s]
RetDict == [kind |-> "dict", exc |-> "none", b |-> FALSE, s |-> None]
RetRaise(exc) == [kind |-> "raise", exc |-> exc, b |-> FALSE, s |-> None]

\* an operation that puts the view back as it was when its resolution raised
Finish_rollback(c, d, exc) ==
    IF exc # "none" THEN [data |-> c.data0, ret |-> RetRaise(exc)]
    ELSE [data |-> d, ret |-> RetDict]

\* What a public operation does once the resolution it asked for (if any)
\* has returned or raised `exc`: the data it leaves and what it returns.
Finish(c, d, exc) ==
    LET s == c.section
        o == c.option
        has == s \in DOMAIN d
    IN  IF exc # "none" /\ ~Swallows(c.op, exc)
        THEN [data |-> d, ret |-> RetRaise(exc)]
        ELSE CASE c.op = "parse_configuration" -> [data |-> d, ret |-> RetDict]
               [] c.op = "has_section" -> [data |-> d, ret |-> RetBool(has)]
               [] c.op \in {"options", "getitem", "items"} ->
                      [data |-> d,
                       ret |-> IF has THEN RetDict ELSE RetRaise("KeyError")]
               [] c.op = "has_option" ->
                      [data |-> d,
                       ret |-> IF has THEN RetBool(o \in DOMAIN d[s])
                               ELSE RetRaise("KeyError")]
               [] c.op = "get" ->
                      [data |-> d,
                       ret |-> IF has /\ o \in DOMAIN d[s] THEN RetStr(d[s][o])
                               ELSE RetRaise("KeyError")]
               [] c.op = "items_all" -> [data |-> d, ret |-> RetDict]
               [] c.op = "add_section" ->
                      [data |-> view_add_section(d, s), ret |-> NoRet]
               [] c.op = "set" ->
                      LET d1 == view_set(d, s, o, c.value)
                      IN  [data |-> d1, ret |-> RetStr(d1[s][o])]

-----------------------------------------------------------------------------
(* The recursive resolver *)

\* the deepest recursion the model follows; the cycle guard keeps the
\* recursion below it
MaxDepth == 5

\* the call record of a public operation at its start. todo: the sections
\* it still has to hand to parse_configuration; walks: the roots whose walk
\* it has started; writes: the (section, key, value) triples the generic
\* handler has handed to the view's set; checked0, data0: the view when the
\* operation was called.
NewCall(op, section, option, value, todo) ==
    [op |-> op, section |-> section, option |-> option, value |-> value,
     todo |-> todo, walks |-> <<>>, writes |-> <<>>,
     checked0 |-> sections_checked, data0 |-> data, ret |-> NoRet,
     raised |-> "none"]

NoCall == [op |-> "none", section |-> None, option |-> None, value |-> None,
           todo |-> <<>>, walks |-> <<>>, writes |-> <<>>, checked0 |-> {},
           data0 |-> EmptyDict, ret |-> NoRet, raised |-> "none"]

\* The operation in progress ends, with exception `exc` or with "none":
\* its continuation runs on d, every frame is gone, the dict of the
\* in-flight sections is dropped with the call.
Complete(c, d, exc) ==
    LET r == Finish(c, d, exc)
    IN  /\ data' = r.data
        /\ call' = [c EXCEPT !.ret = r.ret, !.raised = exc]
        /\ pc' = "idle"
        /\ stack' = <<>>
        /\ processed_sections' = {}

\* a walk that is entered without a mark
enter_section_unmarked(processed, name) == processed

\* lines 404-406: processed_sections[section_name] = True
enter_section(processed, name) == processed \cup {name}

\* a walk that returns and leaves its mark
leave_section_kept(processed, name) == processed

\* lines 458-459: del processed_sections[section_name]
leave_section(processed, name) == processed \ {name}

\* a trace that keeps what earlier calls recorded
loginfo_kept(log) == log

\* lines 363-365: delattr(self, '_loginfo'), the trace is created anew
loginfo_cleared(log) == <<>>

\* a parse_configuration without the checks of its argument
usage_error_none(section) == "none"

\* parse_configuration, lines 357-361: what is raised for a section name
\* that is not a string or is empty, "none" for any other
usage_error(section) ==
    IF section = None THEN "TypeError"
    ELSE IF section = EmptyStr THEN "ValueError"
    ELSE "none"

\* parse_owner_section(section) for a view operation, parse_configuration
\* (section) for the direct call c: the checks of parse_configuration, the
\* trace reset, and the entry into the root section (lines 375-406).
Begin(c) ==
    LET section == Head(c.todo)
        c1 == [c EXCEPT !.todo = Tail(@)]
        checked1 == IF c.op = "parse_configuration" THEN sections_checked
                    ELSE sections_checked \cup {section}
    IN  /\ events' = IF c.walks = <<>> THEN <<>> ELSE events
        /\ UNCHANGED <<configdata, debug_level, exception_control_level>>
        /\ IF usage_error(section) # "none"
           THEN /\ sections_checked' = checked1
                /\ UNCHANGED loginfo
                /\ Complete(c1, data, usage_error(section))
           ELSE IF section = None
           THEN /\ sections_checked' = checked1
                /\ loginfo' = loginfo_cleared(loginfo)
                /\ Complete(c1, data, "TypeError")
           ELSE /\ sections_checked' = checked1 \cup {section}
                /\ loginfo' = loginfo_add(loginfo_cleared(loginfo),
                                            [type |-> "section-entry", name |-> section])
                /\ IF section \notin DOMAIN configdata
                   THEN Complete([c1 EXCEPT !.walks = Append(@, section)], data, "KeyError")
                   ELSE /\ call' = [c1 EXCEPT !.walks = Append(@, section)]
                        /\ stack' = <<[name |-> section, idx |-> 1]>>
                        /\ processed_sections' = enter_section({}, section)
                        /\ pc' = "walk"
                        /\ UNCHANGED data

\* A public operation is called: it resolves the sections of c.todo first.
Invoke(c) ==
    /\ pc = "idle"
    /\ UNCHANGED offvars
    /\ IF c.todo = <<>>
       THEN /\ Complete(c, data, "none")
            /\ events' = <<>>
            /\ UNCHANGED <<configdata, sections_checked, debug_level,
                           exception_control_level, loginfo>>
       ELSE Begin(c)

\* the frame that is running, the root of the walk, the entry at hand
Top == stack[Len(stack)]
section_name == Top.name
section_root == stack[1].name
HasKey == pc = "walk" /\ Top.idx <= Len(configdata[section_name])
sec_k == Strip(configdata[section_name][Top.idx].key)
sec_v == StripQuotes(Strip(configdata[section_name][Top.idx].value))
regex_op_splitter_m == regex_op_matcher(sec_k)
op1 == get_op1_from_regex_match(regex_op_splitter_m)
op2 == get_op2_from_regex_match(regex_op_splitter_m)

\* getattr(self, "_handler_" + op1, None): the handlers of the class
ophandler_f(op) ==
    IF op = <<"u", "s", "e">> THEN "_handler_use"
    ELSE IF op = <<"g", "e", "n", "e", "r", "i", "c">> THEN "_handler_generic"
    ELSE "None"

\* the trace after lines 416 and 429
LogKey == loginfo_add(loginfo, [type |-> "section-key-value", key |-> sec_k, value |-> sec_v])
LogOperands == loginfo_add(LogKey, [type |-> "section-operands", op1 |-> op1, op2 |-> op2])

\* a loop that passes over the entry after the one at hand
NextEntry_skip(frames) == [frames EXCEPT ![Len(frames)].idx = @ + 2]

\* the `for` loop goes on to the next entry of the running section
NextEntry(frames) == [frames EXCEPT ![Len(frames)].idx = @ + 1]

\* a generic handler that writes to the section being walked
generic_target_nested(root, name) == name

\* the section the generic handler writes to
generic_target(root, name) == root

\* _handler_generic: the view's set on the root section; the root is in
\* sections_checked (line 385), so set resolves nothing
handler_generic(d, root, name, k, v) == view_set(d, generic_target(root, name), k, v)

\* the call record once the generic handler has called set
Written(c, root, name, k, v) ==
    [c EXCEPT !.writes = Append(@, [section |-> generic_target(root, name),
                                    from |-> name, key |-> k, value |-> v])]

\* a generic handler that records its entry only
LogGeneric_open(log) ==
    loginfo_add(log, [type |-> "handler-entry", name |-> "_handler_generic"])

\* the trace after _handler_generic (lines 474, 478)
LogGeneric(log) ==
    loginfo_add(loginfo_add(log, [type |-> "handler-entry", name |-> "_handler_generic"]),
                [type |-> "handler-exit", name |-> "_handler_generic"])

\* a cycle test that never finds the target in flight
in_flight_never(target, processed) == FALSE

\* the cycle test of _handler_use (line 508)
in_flight(target, processed) == target \in processed

\* a cycle that ends the loop of the running section
after_cycle_break(frames) ==
    [frames EXCEPT ![Len(frames)].idx = Len(configdata[frames[Len(frames)].name]) + 1]

\* after a cycle that is not escalated _handler_use returns 0 and the loop
\* of the running section goes on
after_cycle(frames) == NextEntry(frames)

\* The conditions under which each step of the walk is taken
IsSkipKey == HasKey /\ ~regex_op_splitter_m.ok
IsDirective == HasKey /\ regex_op_splitter_m.ok
IsGenericKey == IsDirective /\ ophandler_f(op1) = "None"
IsNamedGenericKey == IsDirective /\ ophandler_f(op1) = "_handler_generic"
IsUseKey == IsDirective /\ ophandler_f(op1) = "_handler_use"
IsUseRecurse == IsUseKey /\ ~in_flight(op2, processed_sections) /\ Len(stack) < MaxDepth
IsUseCycle == IsUseKey /\ in_flight(op2, processed_sections)
IsExitSection == pc = "walk" /\ Top.idx > Len(configdata[section_name])

\* line 422: the key is no directive and is skipped
SkipKey ==
    /\ IsSkipKey
    /\ loginfo' = LogKey
    /\ stack' = NextEntry(stack)
    /\ UNCHANGED <<offvars, configdata, data, sections_checked, debug_level,
                   exception_control_level, events, processed_sections, call, pc>>

\* lines 446-454: no handler of that name, the generic handler is called
GenericKey ==
    /\ IsGenericKey
    /\ loginfo' = LogGeneric(LogOperands)
    /\ data' = handler_generic(data, section_root, section_name, sec_k, sec_v)
    /\ call' = Written(call, section_root, section_name, sec_k, sec_v)
    /\ stack' = NextEntry(stack)
    /\ UNCHANGED <<offvars, configdata, sections_checked, debug_level,
                   exception_control_level, events, processed_sections, pc>>

\* handlers that all return 0
handler_rval_zero(handler) == "0"

\* what a handler returns: _handler_use returns 0 (line 518),
\* _handler_generic has no return statement and returns None
handler_rval(handler) == IF handler = "_handler_use" THEN "0" ELSE "None"

\* lines 436-445 for op1 = generic: _handler_generic is found by name, it
\* returns None, and None != 0 is reported as a WARNING
NamedGenericKey ==
    /\ IsNamedGenericKey
    /\ loginfo' = LogGeneric(LogOperands)
    /\ events' = IF handler_rval("_handler_generic") # "0"
                 THEN Append(events, [event |-> "WARNING", exc |-> "RuntimeError",
                                      handler |-> "_handler_generic", rval |-> None])
                 ELSE events
    /\ UNCHANGED <<offvars, configdata, sections_checked, debug_level,
                   exception_control_level>>
    /\ LET d == handler_generic(data, section_root, section_name, sec_k, sec_v)
           c == Written(call, section_root, section_name, sec_k, sec_v)
       IN  IF handler_rval("_handler_generic") # "0" /\ exception_control_raises("WARNING")
           THEN Complete(c, d, "RuntimeError")
           ELSE /\ data' = d
                /\ call' = c
                /\ stack' = NextEntry(stack)
                /\ UNCHANGED <<processed_sections, pc>>

\* _handler_use, the target is not in flight: _parse_configuration_r(op2)
UseRecurse ==
    /\ IsUseRecurse
    /\ UNCHANGED <<offvars, configdata, sections_checked, debug_level,
                   exception_control_level, events>>
    /\ LET log == loginfo_add(LogOperands, [type |-> "handler-entry", name |-> "_handler_use"])
       IN  IF op2 = None
           THEN /\ loginfo' = log
                /\ Complete(call, data, "TypeError")
           ELSE /\ loginfo' = loginfo_add(log, [type |-> "section-entry", name |-> op2])
                /\ IF op2 \notin DOMAIN configdata
                   THEN Complete(call, data, "KeyError")
                   ELSE /\ stack' = Append(stack, [name |-> op2, idx |-> 1])
                        /\ processed_sections' = enter_section(processed_sections, op2)
                        /\ UNCHANGED <<data, call, pc>>

\* _handler_use, the target is in flight: the cycle is logged and reported
UseCycle ==
    /\ IsUseCycle
    /\ events' = Append(events, [event |-> "WARNING", exc |-> "ValueError",
                                 dst |-> op1, src |-> section_name])
    /\ UNCHANGED <<offvars, configdata, sections_checked, debug_level,
                   exception_control_level>>
    /\ LET log == loginfo_add(
                      loginfo_add(LogOperands, [type |-> "handler-entry", name |-> "_handler_use"]),
                      [type |-> "cycle-detected", src |-> section_name, dst |-> op1])
       IN  IF exception_control_raises("WARNING")
           THEN /\ loginfo' = log
                /\ Complete(call, data, "ValueError")
           ELSE /\ loginfo' = loginfo_add(log, [type |-> "handler-exit", name |-> "_handler_use"])
                /\ stack' = after_cycle(stack)
                /\ UNCHANGED <<data, processed_sections, call, pc>>

\* lines 458-464: the entries of the running section are done. The section
\* leaves the in-flight dict and returns: to _handler_use of the section
\* that used it, whose loop goes on, or to parse_configuration.
ExitSection ==
    /\ IsExitSection
    /\ UNCHANGED <<offvars, configdata, sections_checked, debug_level,
                   exception_control_level, events>>
    /\ LET log == loginfo_add(loginfo, [type |-> "section-exit", name |-> section_name])
       IN  IF Len(stack) > 1
           THEN /\ loginfo' = loginfo_add(log, [type |-> "handler-exit", name |-> "_handler_use"])
                /\ stack' = NextEntry(SubSeq(stack, 1, Len(stack) - 1))
                /\ processed_sections' = leave_section(processed_sections, section_name)
                /\ UNCHANGED <<data, call, pc>>
           ELSE /\ loginfo' = log
                /\ IF call.todo = <<>>
                   THEN Complete(call, data, "none")
                   ELSE /\ pc' = "next"
                        /\ stack' = <<>>
                        /\ processed_sections' = {}
                        /\ UNCHANGED <<data, call>>

\* items(): the loop hands the next section to parse_owner_section
ItemsNext ==
    /\ pc = "next"
    /\ UNCHANGED offvars
    /\ Begin(call)

-----------------------------------------------------------------------------
(* The public operations *)

\* the section names the operations are called with
ViewNames == {SecA, SecX, EmptyStr}
MutateNames == {SecA, SecX}
RootNames == {SecA, SecB, SecC, SecX, EmptyStr, None}
OptionNames == {<<"k">>}
SetValues == {<<"9">>}

\* a view operation that resolves nothing
Unchecked_never(section) == <<>>

\* a view operation that resolves its section every time
Unchecked_always(section) == <<section>>

\* a view operation resolves its section first when it is not checked
Unchecked(section) == IF section \in sections_checked THEN <<>> ELSE <<section>>

\* ConfigParserEnhanced.parse_configuration(section)
ParseConfiguration ==
    \E section \in RootNames :
        Invoke(NewCall("parse_configuration", section, None, None, <<section>>))

HasSection ==
    \E section \in ViewNames :
        Invoke(NewCall("has_section", section, None, None, Unchecked(section)))

Options ==
    \E section \in ViewNames :
        Invoke(NewCall("options", section, None, None, Unchecked(section)))

\* __getitem__
GetItem ==
    \E section \in ViewNames :
        Invoke(NewCall("getitem", section, None, None, Unchecked(section)))

HasOption ==
    \E section \in ViewNames, option \in OptionNames :
        Invoke(NewCall("has_option", section, option, None, Unchecked(section)))

Get ==
    \E section \in ViewNames, option \in OptionNames :
        Invoke(NewCall("get", section, option, None, Unchecked(section)))

\* items(section)
Items ==
    \E section \in ViewNames :
        Invoke(NewCall("items", section, None, None, Unchecked(section)))

\* owner.configdata.keys(), in the order of the file
section_list == SelectSeq(<<SecA, SecB, SecC>>, LAMBDA n : n \in DOMAIN configdata)

\* items(): parse_owner_section for every section of the provider
ItemsAll == Invoke(NewCall("items_all", None, None, None, section_list))

AddSection ==
    \E section \in MutateNames :
        Invoke(NewCall("add_section", section, None, None, Unchecked(section)))

Set ==
    \E section \in MutateNames, option \in OptionNames, value \in SetValues :
        Invoke(NewCall("set", section, option, value, Unchecked(section)))

-----------------------------------------------------------------------------
(* Configurations *)

kK == <<"k">>
kJ == <<"j">>
kM == <<"m">>
kN == <<"n">>
v1 == <<"1">>
v2 == <<"2">>
\* a value written with double quotes around it
v3q == <<"\"", "3", "\"">>

BodiesA ==
    { <<>>,
      <<Entry(kK, v1)>>,
      <<Entry(kK, v1), Entry(UseKey(SecB), v1), Entry(kJ, v1)>>,
      <<Entry(kK, v1), Entry(UseKey(SecA), v1), Entry(kJ, v1)>>,
      <<Entry(kK, v1), Entry(UseKey(SecX), v1), Entry(kJ, v1)>>,
      <<Entry(UseKey(<<"'", "B", "'">>), v1), Entry(UseKey(SecC), v1)>>,
      <<Entry(<<"+">>, v1), Entry(<<"a", "+", "b">>, v1), Entry(kK, v1)>>,
      <<Entry(<<"g", "e", "n", "e", "r", "i", "c">>, v1), Entry(kJ, v1)>>,
      <<Entry(<<"u", "s", "e">>, v1), Entry(kJ, v1)>>,
      <<Entry(<<"k", "-", "1", " ", "x", " ", "y">>, v3q), Entry(kK, v1)>> }

BodiesB ==
    { <<>>,
      <<Entry(kK, v2)>>,
      <<Entry(kK, v2), Entry(UseKey(SecA), v2), Entry(kM, v2)>>,
      <<Entry(UseKey(SecX), v2)>> }

BodiesC ==
    { <<Entry(kK, v3q)>>,
      <<Entry(UseKey(SecB), v3q), Entry(kN, v3q)>> }

MkConfig(a, b, c) ==
    [n \in {SecA, SecB, SecC} |-> IF n = SecA THEN a ELSE IF n = SecB THEN b ELSE c]

Configs == {MkConfig(a, b, c) : a \in BodiesA, b \in BodiesB, c \in BodiesC}

\* the configurations the view operations are run on
ViewConfigs ==
    {MkConfig(a, b, <<Entry(kK, v3q)>>) :
        a \in BodiesA,
        b \in {<<Entry(kK, v2)>>,
               <<Entry(kK, v2), Entry(UseKey(SecA), v2), Entry(kM, v2)>>}}

\* every include graph over the three sections: each section holds a
\* generic key followed by one `use` key for each section of a set
UseKeys(targets) ==
    LET all == <<SecA, SecB, SecC>>
        picked == SelectSeq(all, LAMBDA n : n \in targets)
    IN  [i \in 1..Len(picked) |-> Entry(UseKey(picked[i]), v1)]

GraphConfigs ==
    {[n \in {SecA, SecB, SecC} |-> <<Entry(kK, v1)>> \o UseKeys(uses[n])] :
        uses \in [{SecA, SecB, SecC} -> SUBSET {SecA, SecB, SecC}]}

TokIdle ==
    /\ tok_text = <<>>
    /\ tok_m = [done |-> TRUE, m |-> NoMatch, op1 |-> None, op2 |-> None]

\* no second instance
NoTwin == <<>>

\* a new instance on one of the files cfgs
EngineStart(cfgs, levels, policies) ==
    /\ configdata \in cfgs
    /\ debug_level \in levels
    /\ exception_control_level \in policies
    /\ data = EmptyDict
    /\ sections_checked = {}
    /\ loginfo = <<>>
    /\ events = <<>>
    /\ stack = <<>>
    /\ processed_sections = {}
    /\ call = NoCall
    /\ pc = "idle"

EngineInit(cfgs, levels, policies) ==
    /\ EngineStart(cfgs, levels, policies)
    /\ twin = NoTwin
    /\ turn = "solo"

\* The resolver: top-level resolutions of every configuration
Init == TokIdle /\ EngineInit(Configs, {0, 1}, {"default", "high"})

Next ==
    \/ ParseConfiguration
    \/ SkipKey
    \/ GenericKey
    \/ NamedGenericKey
    \/ UseRecurse
    \/ UseCycle
    \/ ExitSection

Spec == Init /\ [][Next]_vars

\* The view: every public operation, in any order
ViewInit == TokIdle /\ EngineInit(ViewConfigs, {1}, {"default"})

ViewNext ==
    \/ ParseConfiguration
    \/ HasSection
    \/ Options
    \/ GetItem
    \/ HasOption
    \/ Get
    \/ Items
    \/ ItemsAll
    \/ AddSection
    \/ Set
    \/ SkipKey
    \/ GenericKey
    \/ NamedGenericKey
    \/ UseRecurse
    \/ UseCycle
    \/ ExitSection
    \/ ItemsNext

ViewSpec == ViewInit /\ [][ViewNext]_vars

\* The include graphs: resolutions of every include graph over three sections
GraphInit == TokIdle /\ EngineInit(GraphConfigs, {0}, {"default"})

GraphNext ==
    \/ ParseConfiguration
    \/ GenericKey
    \/ UseRecurse
    \/ UseCycle
    \/ ExitSection

GraphSpec == GraphInit /\ [][GraphNext]_vars

\* The tokenizer alone
TokSpecInit == TokInit /\ EngineInit({MkConfig(<<>>, <<>>, <<>>)}, {0}, {"default"})

TokNext == Tokenize /\ UNCHANGED <<engvars, pairvars>>

TokSpec == TokSpecInit /\ [][TokNext]_vars

\* the running instance
EngineState ==
    [configdata |-> configdata, data |-> data,
     sections_checked |-> sections_checked, debug_level |-> debug_level,
     exception_control_level |-> exception_control_level, loginfo |-> loginfo,
     events |-> events, stack |-> stack,
     processed_sections |-> processed_sections, call |-> call, pc |-> pc]

\* instance e runs next
Load(e) ==
    /\ configdata' = e.configdata
    /\ data' = e.data
    /\ sections_checked' = e.sections_checked
    /\ debug_level' = e.debug_level
    /\ exception_control_level' = e.exception_control_level
    /\ loginfo' = e.loginfo
    /\ events' = e.events
    /\ stack' = e.stack
    /\ processed_sections' = e.processed_sections
    /\ call' = e.call
    /\ pc' = e.pc

\* the operation and the arguments of the last call of both instances
SameOperation ==
    /\ call.op = twin.call.op
    /\ call.section = twin.call.section
    /\ call.option = twin.call.option
    /\ call.value = twin.call.value

\* Two instances on the same file, the first with debug level 0 (the default
\* of Debuggable.debug_level), the second with debug level 1, that are given
\* the same operations: the first runs one operation to its end
PairFirst ==
    /\ turn = "first"
    /\ pc # "idle" \/ call.op = "none"
    /\ ViewNext

\* the first has returned: the second is given the same operation
SwapToSecond ==
    /\ turn = "first"
    /\ pc = "idle"
    /\ call.op # "none"
    /\ Load(twin)
    /\ twin' = EngineState
    /\ turn' = "second"
    /\ UNCHANGED tokvars

PairSecond ==
    /\ turn = "second"
    /\ pc # "idle" \/ call.op = "none"
    /\ ViewNext
    /\ pc = "idle" => SameOperation'

\* the second has returned: the caller goes on to the next operation, the
\* records of the calls are dropped
NextOperation ==
    /\ turn = "second"
    /\ pc = "idle"
    /\ call.op # "none"
    /\ Load([twin EXCEPT !.call = NoCall])
    /\ twin' = [EngineState EXCEPT !.call = NoCall]
    /\ turn' = "first"
    /\ UNCHANGED tokvars

PairInit ==
    /\ TokIdle
    /\ EngineStart(ViewConfigs, {0}, {"default"})
    /\ twin = [EngineState EXCEPT !.debug_level = 1]
    /\ turn = "first"

PairNext ==
    \/ PairFirst
    \/ SwapToSecond
    \/ PairSecond
    \/ NextOperation

PairSpec == PairInit /\ [][PairNext]_vars

\* the files inifilepath is assigned: three files whose section A differs,
\* and one without a section A
ReloadConfigs ==
    {MkConfig(a, <<Entry(kK, v2)>>, <<Entry(kK, v3q)>>) :
        a \in {<<Entry(kK, v1)>>, <<Entry(kK, v2)>>, <<Entry(kJ, v1)>>}}
    \cup {[n \in {SecB, SecC} |-> <<Entry(kK, v2)>>]}

\* the inifilepath setter on an instance that has a file (lines 103-138):
\* _configdata and _loginfo are deleted, so that the next access reads the
\* new file and starts a new trace; _configdata_parsed, the view, is not
SetIniFilePath ==
    /\ pc = "idle"
    /\ \E cfg \in ReloadConfigs : configdata' = cfg
    /\ loginfo' = <<>>
    /\ events' = <<>>
    /\ call' = NewCall("inifilepath", None, None, None, <<>>)
    /\ UNCHANGED <<offvars, data, sections_checked, debug_level,
                   exception_control_level, stack, processed_sections, pc>>

\* The view while the source of the configuration is reassigned
ReloadInit == TokIdle /\ EngineInit(ReloadConfigs, {1}, {"default"})

ReloadNext ==
    \/ SetIniFilePath
    \/ HasSection
    \/ Get
    \/ GenericKey
    \/ ExitSection

ReloadSpec == ReloadInit /\ [][ReloadNext]_vars

-----------------------------------------------------------------------------
(* Properties of the resolver *)

Walking == pc = "walk"

\* a top-level resolution has returned to its caller without an exception
Resolved ==
    /\ pc = "idle"
    /\ call.op = "parse_configuration"
    /\ call.ret.kind = "dict"

\* the sections a `use` key of section n names
UseTargets(n) ==
    {get_op2_from_regex_match(regex_op_matcher(Strip(e.key))) :
        e \in {configdata[n][i] : i \in 1..Len(configdata[n])} \cap
              {x \in {configdata[n][i] : i \in 1..Len(configdata[n])} :
                  /\ regex_op_matcher(Strip(x.key)).ok
                  /\ ophandler_f(get_op1_from_regex_match(
                         regex_op_matcher(Strip(x.key)))) = "_handler_use"}}

RECURSIVE ReachFrom(_, _)
\* the sections reached from the sections of `seen` along `use` keys
ReachFrom(seen, k) ==
    LET more == seen \cup UNION {UseTargets(n) : n \in seen \cap DOMAIN configdata}
    IN  IF k = 0 \/ more = seen THEN seen ELSE ReachFrom(more, k - 1)

Reach(root) == ReachFrom({root}, Cardinality(DOMAIN configdata) + 1)

\* the keys of section n that are directives of no `use` operation
GenericKeys(n) ==
    {Strip(e.key) : e \in
        {x \in {configdata[n][i] : i \in 1..Len(configdata[n])} :
            /\ regex_op_matcher(Strip(x.key)).ok
            /\ ophandler_f(get_op1_from_regex_match(
                   regex_op_matcher(Strip(x.key)))) # "_handler_use"}}

\* C1 (as claimed): when a top-level resolution has returned, every key the
\* generic handler wrote holds the value of the last write to it that was
\* processed (last write wins).
C1_LastWriteWins ==
    Resolved =>
        \A i \in 1..Len(call.writes) :
            (\A j \in (i + 1)..Len(call.writes) :
                call.writes[j].key # call.writes[i].key)
            => /\ call.writes[i].section \in DOMAIN data
               /\ call.writes[i].key \in DOMAIN data[call.writes[i].section]
               /\ data[call.writes[i].section][call.writes[i].key] = call.writes[i].value

\* the positions of the frames, root first
IdxVec == [i \in 1..Len(stack) |-> stack[i].idx]

\* a is before b in the lexicographic order (a proper prefix is before)
LexLess(a, b) ==
    \/ Len(a) < Len(b) /\ \A i \in 1..Len(a) : a[i] = b[i]
    \/ \E i \in 1..Len(a) :
          /\ i <= Len(b)
          /\ a[i] < b[i]
          /\ \A j \in 1..(i - 1) : a[j] = b[j]

\* some step of the walk can be taken: the running frame is at a key that
\* one of the steps takes, or at the end of its section
CanStep ==
    \/ IsSkipKey
    \/ IsGenericKey
    \/ IsNamedGenericKey
    \/ IsUseRecurse
    \/ IsUseCycle
    \/ IsExitSection

\* the recursion is no deeper than the number of sections and no frame is
\* past the end of its section
FramesBounded ==
    /\ Len(stack) <= Cardinality(DOMAIN configdata)
    /\ \A i \in 1..Len(stack) : stack[i].idx <= Len(configdata[stack[i].name]) + 1

\* C2: under the default policy a resolution over sections that all exist
\* terminates: every state of a running resolution can take a step, its
\* frames stay within bounds, and every step moves the vector of frame
\* positions strictly up in the lexicographic order, which has no infinite
\* ascending chain within these bounds.
C2_Terminates ==
    /\ [](Walking => (CanStep /\ FramesBounded))
    /\ [][(Walking /\ Walking') => LexLess(IdxVec, IdxVec')]_vars

\* C2 witness: a resolution over a `use` cycle has returned after it met the cycle
C2_Witness ==
    /\ Resolved
    /\ events # <<>>
    /\ SecA \in UseTargets(SecB) /\ SecB \in UseTargets(SecA)
    /\ call.section = SecA

\* the step of a `use` key whose target is in the in-flight set
CycleHit == IsUseKey /\ op2 \in processed_sections

\* C3 (as claimed): the cycle-detected condition names the running section
\* as the source and the target of the `use` key as the destination, in the
\* warning and in the trace event.
C3_CycleNamesTarget ==
    [][CycleHit =>
          /\ events'[Len(events')].src = section_name
          /\ events'[Len(events')].dst = op2
          /\ debug_level > 0 =>
                \E i \in (Len(loginfo) + 1)..Len(loginfo') :
                    /\ loginfo'[i].type = "cycle-detected"
                    /\ loginfo'[i].src = section_name
                    /\ loginfo'[i].dst = op2]_vars

\* C4: under the default policy, when a resolution has returned, every
\* generic key of every section reached from the root along `use` keys is
\* in the root's merged result, also when a `use` key met a cycle.
C4_CycleContinues ==
    (Resolved /\ exception_control_level = "default") =>
        \A n \in Reach(call.section) :
            \A k \in GenericKeys(n) :
                /\ call.section \in DOMAIN data
                /\ k \in DOMAIN data[call.section]

\* C4 witness: A -use-> B -use-> A resolved from A, with a key of B that
\* follows the cyclic `use` key in A's result
C4_Witness ==
    /\ Resolved
    /\ exception_control_level = "default"
    /\ call.section = SecA
    /\ \E i \in 1..Len(events) : events[i].exc = "ValueError" /\ events[i].src = SecB
    /\ configdata[SecB][3].key = kM
    /\ configdata[SecA][3].key = kJ
    /\ {kK, kJ, kM} \subseteq DOMAIN data[SecA]

-----------------------------------------------------------------------------
(* Properties of the view *)

\* the operations that ask for the resolution of one section
ResolvingOps ==
    {"parse_configuration", "has_section", "options", "getitem", "has_option",
     "get", "items"}

\* the view operations that name one section
SectionQueries == {"has_section", "options", "getitem", "has_option", "get", "items"}

Roots(c) == {c.walks[i] : i \in 1..Len(c.walks)}

\* C5: resolving a section that was resolved before (through the top-level
\* entry point or through a view query) leaves the merged result of every
\* section as it was.
C5_Idempotent ==
    (/\ pc = "idle"
     /\ call.op \in ResolvingOps
     /\ call.section \in call.checked0)
    => data = call.data0

\* C5 witness: a second top-level resolution of A has walked A again, the
\* generic handler was called, and A's result is in the view
C5_Witness ==
    /\ pc = "idle"
    /\ call.op = "parse_configuration"
    /\ call.section = SecA
    /\ SecA \in call.checked0
    /\ call.walks = <<SecA>>
    /\ call.writes # <<>>
    /\ SecA \in DOMAIN data

\* C6 (as claimed): once a section is checked, no later view operation
\* walks it as a root again, the whole-view items() included.
C6_WalkedOnce ==
    (call.op \in SectionQueries \cup {"items_all"})
    => Roots(call) \cap call.checked0 = {}

-----------------------------------------------------------------------------
(* Properties of the tokenizer *)

IsWord(t) == t # <<>> /\ \A i \in 1..Len(t) : t[i] \in WordChars
IsQuotedRun(t) == t # <<>> /\ \A i \in 1..Len(t) : t[i] \in QuotedChars
Underscored(t) == [i \in 1..Len(t) |-> IF t[i] = "-" THEN "_" ELSE t[i]]
Trimmed(t) == RStrip(LStrip(t, {" "}), {" "})

\* text is  w1 ' ' w2 rest : two words and what follows, which is nothing
\* or begins with a space; i and j are the ends of w1 and w2
WordWordAt(text, i, j) ==
    /\ 1 <= i /\ i + 2 <= j /\ j <= Len(text)
    /\ IsWord(SubSeq(text, 1, i))
    /\ text[i + 1] = " "
    /\ IsWord(SubSeq(text, i + 2, j))
    /\ (j = Len(text) \/ text[j + 1] = " ")

\* text is  w1 ' ' w2 ' ' 'Q' : a word, an unquoted token and a quoted run
WordTokenQuotedAt(text, i, j) ==
    /\ WordWordAt(text, i, j)
    /\ j + 4 <= Len(text)
    /\ text[j + 2] = "'"
    /\ text[Len(text)] = "'"
    /\ IsQuotedRun(SubSeq(text, j + 3, Len(text) - 1))

\* text is  w1 ' ' 'Q' rest : the quoted run follows op1; i is the end of
\* w1 and j the end of Q
WordQuotedAt(text, i, j) ==
    /\ 1 <= i /\ i + 3 <= j /\ j + 1 <= Len(text)
    /\ IsWord(SubSeq(text, 1, i))
    /\ text[i + 1] = " "
    /\ text[i + 2] = "'"
    /\ IsQuotedRun(SubSeq(text, i + 3, j))
    /\ text[j + 1] = "'"

Positions == 1..Len(tok_text)

\* C7 (as claimed): for a key `op1 TOKEN 'Q'` the tokenizer yields op2 = Q.
C7_QuotedWins ==
    tok_m.done =>
        \A i, j \in Positions :
            WordTokenQuotedAt(tok_text, i, j) =>
                /\ tok_m.m.ok
                /\ tok_m.op2 = SubSeq(tok_text, j + 3, Len(tok_text) - 1)

\* C7 (amended): a quoted run is the operand only where it follows op1:
\* `op1 'Q'` yields op2 = Q without the spaces around it; for a key
\* `op1 TOKEN 'Q'` the tokenizer yields op1 with its dashes replaced and
\* op2 = TOKEN, the quoted run being dropped with the rest.
C7_QuotedAfterOp1 ==
    tok_m.done =>
        \A i, j \in Positions :
            /\ WordTokenQuotedAt(tok_text, i, j) =>
                  /\ tok_m.m.ok
                  /\ tok_m.op1 = Underscored(SubSeq(tok_text, 1, i))
                  /\ tok_m.op2 = SubSeq(tok_text, i + 2, j)
            /\ WordQuotedAt(tok_text, i, j) =>
                  /\ tok_m.m.ok
                  /\ tok_m.op2 = Trimmed(SubSeq(tok_text, i + 3, j))

EnvvarPrependPathQuotedA ==
    <<"e","n","v","v","a","r","-","p","r","e","p","e","n","d"," ",
      "P","A","T","H"," ","'","A","'">>

\* C7 witness: `envvar-prepend PATH 'A'` was tokenized to (envvar_prepend, PATH)
C7_Witness ==
    /\ tok_m.done
    /\ tok_text = EnvvarPrependPathQuotedA
    /\ \E i, j \in Positions : WordTokenQuotedAt(tok_text, i, j)
    /\ tok_m.op1 = <<"e","n","v","v","a","r","_","p","r","e","p","e","n","d">>
    /\ tok_m.op2 = <<"P","A","T","H">>

\* C8: for a key `op1 op2 rest...` with an unquoted op2, op1 is the first
\* token with every dash replaced by an underscore, op2 is the second token
\* unchanged, and what follows op2 is dropped without an error.
C8_UnquotedOperand ==
    tok_m.done =>
        \A i, j \in Positions :
            WordWordAt(tok_text, i, j) =>
                /\ tok_m.m.ok
                /\ tok_m.op1 = Underscored(SubSeq(tok_text, 1, i))
                /\ tok_m.op2 = SubSeq(tok_text, i + 2, j)

\* C8 witness: `envvar-prepend PATH extra-suffix` was tokenized to
\* (envvar_prepend, PATH)
C8_Witness ==
    /\ tok_m.done
    /\ tok_text = <<"e","n","v","v","a","r","-","p","r","e","p","e","n","d"," ",
                    "P","A","T","H"," ","e","x","t","r","a","-","s","u","f","f","i","x">>
    /\ \E i, j \in Positions : WordWordAt(tok_text, i, j) /\ j < Len(tok_text)
    /\ tok_m.op1 = <<"e","n","v","v","a","r","_","p","r","e","p","e","n","d">>
    /\ tok_m.op2 = <<"P","A","T","H">>

-----------------------------------------------------------------------------
(* Properties of the dispatch *)

\* no prefix of the key is a word that ends the key or is followed by a
\* space: the key does not begin with a word character, or its leading
\* word is not its whole first token
FailsGrammar(k) ==
    ~ \E n \in 1..Len(k) :
          /\ IsWord(SubSeq(k, 1, n))
          /\ (n = Len(k) \/ k[n + 1] = " ")

\* the key of entry i of section n, as the loop sees it
KeyOf(n, i) == RStrip(LStrip(configdata[n][i].key, {" "}), {" "})

\* C9: an entry whose key fails the directive grammar reaches no handler:
\* the step that consumes it writes nothing to the view, reports no event,
\* raises nothing, adds only the entry's own line to the trace, and leaves
\* the walk at the next entry of the same section.
C9_NoDirective ==
    [][(pc = "walk" /\ stack # <<>>
        /\ Top.idx <= Len(configdata[section_name])
        /\ FailsGrammar(KeyOf(section_name, Top.idx)))
       => /\ data' = data
          /\ call' = call
          /\ events' = events
          /\ pc' = "walk"
          /\ processed_sections' = processed_sections
          /\ Len(stack') = Len(stack)
          /\ stack'[Len(stack)] = [name |-> section_name, idx |-> Top.idx + 1]
          /\ Len(loginfo') <= Len(loginfo) + 1
          /\ \A i \in 1..Len(loginfo') :
                 loginfo'[i].type \notin {"handler-entry", "section-operands"}
                 \/ (i <= Len(loginfo) /\ loginfo'[i] = loginfo[i])]_vars

\* C9 witness: a resolution of A has ended without an exception; A has a
\* key made of punctuation and a key whose first token is not a word, both
\* absent from A's result, and a later key of A that is in the result
C9_Witness ==
    /\ Resolved
    /\ call.section = SecA
    /\ call.ret.kind # "raise"
    /\ \E i, j, l \in 1..Len(configdata[SecA]) :
          /\ i < l /\ j < l
          /\ KeyOf(SecA, i) = <<"+">>
          /\ KeyOf(SecA, j) = <<"a", "+", "b">>
          /\ FailsGrammar(KeyOf(SecA, i))
          /\ FailsGrammar(KeyOf(SecA, j))
          /\ DOMAIN data[SecA] = {KeyOf(SecA, l)}

\* C10 (as claimed): the step that dispatches a directive without a handler
\* of its name leaves the raw key with the entry's value in the root
\* section of the view.
C10_GenericRecords ==
    [][IsGenericKey
       => /\ section_root \in DOMAIN data'
          /\ sec_k \in DOMAIN data'[section_root]
          /\ data'[section_root][sec_k] = sec_v]_vars

-----------------------------------------------------------------------------
(* Properties of the frame of a resolution *)

\* section s has the same entry, or no entry, in the views d and e
SameEntry(d, e, s) ==
    /\ s \in DOMAIN d <=> s \in DOMAIN e
    /\ s \in DOMAIN d \cap DOMAIN e => d[s] = e[s]

\* C11: during and after a top-level resolution of root R, the view's entry
\* and the checked marker of every section other than R are what they were
\* when the call was made, and every generic write of the call, those made
\* while a `use` target is walked included, went to R.
C11_OnlyRootChanges ==
    (call.op = "parse_configuration") =>
        /\ \A s \in (DOMAIN data \cup DOMAIN call.data0) \ {call.section} :
               SameEntry(data, call.data0, s)
        /\ sections_checked \ {call.section} = call.checked0 \ {call.section}
        /\ \A i \in 1..Len(call.writes) : call.writes[i].section = call.section

\* C11 witness: A was resolved after C; keys of the `use` target B went to
\* A's entry, B has no entry and no marker, C's entry is as it was
C11_Witness ==
    /\ Resolved
    /\ call.section = SecA
    /\ \E i \in 1..Len(call.writes) :
           call.writes[i].from = SecB /\ call.writes[i].section = SecA
    /\ SecB \notin DOMAIN data
    /\ SecB \notin sections_checked
    /\ SecC \in DOMAIN call.data0
    /\ SecC \in call.checked0
    /\ SecA \in DOMAIN data

-----------------------------------------------------------------------------
(* Properties of the queries of the view *)

\* a query `op` of the view has returned or raised
Returned(op) == pc = "idle" /\ call.op = op

\* C12 (as claimed): get(section, option) returns the value the view holds
\* for option when the section is known to the provider and the option is
\* in its result, and fails with KeyError in every other case, whether or
\* not the section was checked before the call.
C12_GetOrNotFound ==
    Returned("get") =>
        IF /\ call.section \in DOMAIN configdata
           /\ call.section \in DOMAIN data
           /\ call.option \in DOMAIN data[call.section]
        THEN call.ret = RetStr(data[call.section][call.option])
        ELSE call.ret = RetRaise("KeyError")

\* C13 (as claimed): has_section of a name that the provider does not know
\* returns false and raises nothing, in every state of the view.
C13_UnknownIsFalse ==
    (Returned("has_section") /\ call.section \notin DOMAIN configdata)
        => call.ret = RetBool(FALSE)

\* C14 (as claimed): when the resolution that has_section asked for has
\* failed with KeyError, has_section returns false.
C14_NotFoundIsFalse ==
    (Returned("has_section") /\ call.raised = "KeyError")
        => call.ret = RetBool(FALSE)

-----------------------------------------------------------------------------
(* Properties of the failures of a resolution *)

\* the `use` key at hand, in a top-level resolution, names a section that
\* the provider does not have
UseOfMissing ==
    /\ call.op = "parse_configuration"
    /\ IsUseKey
    /\ op2 # None
    /\ op2 \notin DOMAIN configdata

\* a top-level resolution is called for a name that is a non-empty string
\* and that the provider does not have
RootMissing ==
    /\ pc = "idle"
    /\ call'.op = "parse_configuration"
    /\ call'.section \notin (DOMAIN configdata \cup {None, EmptyStr})

UsageCall ==
    /\ pc = "idle"
    /\ call'.op = "parse_configuration"
    /\ call'.section \in {None, EmptyStr}

\* C16: parse_configuration of the empty string or of None fails in the
\* step of the call with ValueError or TypeError, neither of which is the
\* KeyError of a missing section; no section is looked up, and the trace,
\* the checked set and the view stay as they were.
C16_UsageError ==
    [][UsageCall =>
          /\ pc' = "idle"
          /\ call'.ret = RetRaise(IF call'.section = None THEN "TypeError"
                                  ELSE "ValueError")
          /\ call'.ret.exc # "KeyError"
          /\ call'.walks = <<>>
          /\ loginfo' = loginfo
          /\ sections_checked' = sections_checked
          /\ data' = data]_vars

\* C16 witness: parse_configuration("") has failed with ValueError on an
\* engine that holds a trace, checked sections and results of earlier calls
C16_Witness ==
    /\ pc = "idle"
    /\ call.op = "parse_configuration"
    /\ call.section = EmptyStr
    /\ call.ret = RetRaise("ValueError")
    /\ loginfo # <<>>
    /\ sections_checked # {}
    /\ DOMAIN data # {}
    /\ data = call.data0
    /\ sections_checked = call.checked0

-----------------------------------------------------------------------------
(* Properties of the mutations and of items() *)

\* C17 (as claimed): add_section and set resolve nothing: during and after
\* either of them no section has been walked for the call and the checked
\* set is the one the call started with.
C17_MutationResolvesNothing ==
    (call.op \in {"add_section", "set"}) =>
        /\ call.walks = <<>>
        /\ sections_checked = call.checked0

\* C17 (amended): add_section and set resolve nothing when their section
\* is checked already; when it is not, they resolve it first, as has_section
\* does: it is the one section walked for the call and it is marked checked.
C17_MutationResolvesUnchecked ==
    (call.op \in {"add_section", "set"}) =>
        IF call.section \in call.checked0
        THEN /\ call.walks = <<>>
             /\ sections_checked = call.checked0
        ELSE /\ call.walks = <<call.section>>
             /\ sections_checked = call.checked0 \cup {call.section}

\* C17 witness: set on the unchecked section A of the provider has walked
\* A, and A's own key k has kept the value of the file
C17_Witness ==
    /\ Returned("set")
    /\ call.section = SecA
    /\ SecA \notin call.checked0
    /\ call.walks = <<SecA>>
    /\ Len(call.writes) > 0
    /\ call.option = kK
    /\ data[SecA][kK] = v1
    /\ call.ret = RetStr(v1)

\* what a walk from root leaves in the view: the keys of every section
\* reached from it that are directives of no `use` operation
MergedKeys(root) == UNION {GenericKeys(n) : n \in Reach(root) \cap DOMAIN configdata}

\* C18 (as claimed): when items() has returned, every section of the
\* provider was walked as a root for the call, is checked, and has an
\* entry in the view that holds the keys of its merged result.
C18_ItemsMaterializes ==
    (Returned("items_all") /\ call.raised = "none") =>
        \A n \in DOMAIN configdata :
            /\ \E i \in 1..Len(call.walks) : call.walks[i] = n
            /\ n \in sections_checked
            /\ n \in DOMAIN data
            /\ MergedKeys(n) \subseteq DOMAIN data[n]

-----------------------------------------------------------------------------
(* Properties of the handlers' results *)

GenericWord == <<"g", "e", "n", "e", "r", "i", "c">>

\* C19: under the default policy, the step in which a handler found by name
\* returns something other than 0 reports a WARNING with RuntimeError to
\* the exception control and goes on: what the handler wrote is in the
\* view, the call has not ended, and the walk is at the next entry of the
\* running section with every enclosing frame as it was.
C19_NonSuccessContinues ==
    [][(IsNamedGenericKey /\ exception_control_level = "default") =>
          /\ Len(events') = Len(events) + 1
          /\ events'[Len(events')].event = "WARNING"
          /\ events'[Len(events')].exc = "RuntimeError"
          /\ pc' = "walk"
          /\ stack' = [stack EXCEPT ![Len(stack)].idx = @ + 1]
          /\ section_root \in DOMAIN data'
          /\ sec_k \in DOMAIN data'[section_root]
          /\ Len(call'.writes) = Len(call.writes) + 1]_vars

\* C19 witness: A = [generic, j] was resolved under the default policy; the
\* WARNING was reported and both keys are in A's result
C19_Witness ==
    /\ Resolved
    /\ exception_control_level = "default"
    /\ call.section = SecA
    /\ configdata[SecA] = <<Entry(GenericWord, v1), Entry(kJ, v1)>>
    /\ \E i \in 1..Len(events) :
           events[i].event = "WARNING" /\ events[i].exc = "RuntimeError"
    /\ DOMAIN data[SecA] = {GenericWord, kJ}

\* C20 (as claimed): a `use` key without a target is dispatched and the
\* resolution goes on with the next entry; it does not fail.
C20_BareUseAccepted ==
    [][(IsUseKey /\ op2 = None) =>
          /\ pc' = "walk"
          /\ call'.ret.kind # "raise"]_vars

-----------------------------------------------------------------------------
(* Properties of the extraction of op1 *)

\* C21 (as claimed): every raw key that is not empty yields a directive
\* whose op1 is not empty.
C21_Op1Total ==
    (tok_m.done /\ tok_text # <<>>) =>
        /\ tok_m.m.ok
        /\ tok_m.op1 # None
        /\ tok_m.op1 # <<>>

\* C21 (amended): a raw key yields a directive exactly when it passes the
\* grammar, that is when its first whitespace-delimited token is a run of
\* word characters; op1 is then that token with its dashes replaced, which
\* is not empty. Any other key that is not empty yields no directive and
\* no op1.
C21_Op1OnGrammar ==
    tok_m.done =>
        /\ \A n \in 1..Len(tok_text) :
               (/\ IsWord(SubSeq(tok_text, 1, n))
                /\ (n = Len(tok_text) \/ tok_text[n + 1] = " "))
               => /\ tok_m.m.ok
                  /\ tok_m.op1 = Underscored(SubSeq(tok_text, 1, n))
                  /\ tok_m.op1 # <<>>
        /\ FailsGrammar(tok_text) => (~tok_m.m.ok /\ tok_m.op1 = None)

\* C21 witness: `b-c +` was tokenized, op1 is b_c
C21_Witness ==
    /\ tok_m.done
    /\ tok_text = <<"b", "-", "c", " ", "+">>
    /\ ~FailsGrammar(tok_text)
    /\ tok_m.op1 = <<"b", "_", "c">>

-----------------------------------------------------------------------------
(* Properties of the sections that contribute nothing *)

\* every section reached from root along `use` keys is in the provider
WalkSucceeds(root) == Reach(root) \subseteq DOMAIN configdata

\* C30 (as claimed): a query for a section S of the provider whose walk
\* meets no missing section finds S: has_section(S) is true, options(S) and
\* indexing return S's result, whether or not S contributes a key.
C30_ResolvedIsPresent ==
    (/\ pc = "idle"
     /\ call.op \in {"has_section", "options", "getitem"}
     /\ call.section \in DOMAIN configdata
     /\ WalkSucceeds(call.section)
     /\ exception_control_level = "default")
    => /\ call.op = "has_section" => call.ret = RetBool(TRUE)
       /\ call.op \in {"options", "getitem"} => call.ret = RetDict

-----------------------------------------------------------------------------
(* Properties of the stored values *)

\* the writes of call c to option o of section s, in the order made
WritesTo(c, s, o) ==
    SelectSeq(c.writes, LAMBDA w : w.section = s /\ w.key = o)

\* the value that option o of section s holds once set(s, o, value) has
\* returned: the one it held at the call, else the first one the walk that
\* set asked for wrote, else the value of the call
StoredBySet(c) ==
    IF c.section \in DOMAIN c.data0 /\ c.option \in DOMAIN c.data0[c.section]
    THEN c.data0[c.section][c.option]
    ELSE IF WritesTo(c, c.section, c.option) # <<>>
    THEN WritesTo(c, c.section, c.option)[1].value
    ELSE c.value

\* every pair of the view keeps its value in the step
PairsKept ==
    \A s \in DOMAIN data :
        /\ s \in DOMAIN data'
        /\ \A o \in DOMAIN data[s] :
               o \in DOMAIN data'[s] /\ data'[s][o] = data[s][o]

\* C22: set(section, option, value) that returns has the section in the
\* view, has stored value only if the option was not there yet, and returns
\* what the view holds; and no step of any resolution, set or add_section
\* changes or removes a pair that the view holds.
C22_WriteOnce ==
    /\ []((Returned("set") /\ call.ret.kind # "raise") =>
             /\ call.section \in DOMAIN data
             /\ call.option \in DOMAIN data[call.section]
             /\ data[call.section][call.option] = StoredBySet(call)
             /\ call.ret = RetStr(data[call.section][call.option]))
    /\ [][PairsKept]_vars

\* C22 witness: set(A, k, 9) has returned on a view where k of A held 1:
\* it returned 1 and the view is as it was
C22_Witness ==
    /\ Returned("set")
    /\ call.section = SecA
    /\ call.option = kK
    /\ call.value = <<"9">>
    /\ SecA \in DOMAIN call.data0
    /\ kK \in DOMAIN call.data0[SecA]
    /\ call.data0[SecA][kK] = v1
    /\ call.ret = RetStr(v1)
    /\ data = call.data0

-----------------------------------------------------------------------------
(* Properties of the order of the walk *)

IsPrefix(s, t) == Len(s) <= Len(t) /\ SubSeq(t, 1, Len(s)) = s

RECURSIVE EncounterFrom(_, _, _)
\* the keys met from entry i of section n on, depth first: each key of n in
\* the order of the provider, and at a `use` key whose target is a section
\* that is not on the path, all the keys met from the target, before the
\* keys that follow in n
EncounterFrom(n, i, path) ==
    IF i > Len(configdata[n]) THEN <<>>
    ELSE LET k == Strip(configdata[n][i].key)
             v == StripQuotes(Strip(configdata[n][i].value))
             m == regex_op_matcher(k)
             isuse == m.ok /\ ophandler_f(get_op1_from_regex_match(m)) = "_handler_use"
             target == get_op2_from_regex_match(m)
             nested == IF isuse /\ target \in DOMAIN configdata /\ target \notin path
                       THEN EncounterFrom(target, 1, path \cup {target})
                       ELSE <<>>
         IN  <<[from |-> n, key |-> k, value |-> v, written |-> m.ok /\ ~isuse]>>
             \o nested \o EncounterFrom(n, i + 1, path)

EncounterOrder(root) ==
    IF root \in DOMAIN configdata THEN EncounterFrom(root, 1, {root}) ELSE <<>>

\* the keys the trace shows, and the keys handed to the generic handler
KeysLogged ==
    LET ks == SelectSeq(loginfo, LAMBDA e : e.type = "section-key-value")
    IN  [i \in 1..Len(ks) |-> <<ks[i].key, ks[i].value>>]

KeysWritten ==
    [i \in 1..Len(call.writes) |->
        <<call.writes[i].from, call.writes[i].key, call.writes[i].value>>]

\* C23: at every point of a top-level resolution the keys processed so far
\* are the first keys of the depth-first encounter order of the root, and
\* when the resolution has returned they are all of it: the keys of a `use`
\* target stand at the place of the `use` key.
C23_EncounterOrder ==
    (call.op = "parse_configuration" /\ call.walks # <<>>) =>
        LET E == EncounterOrder(call.section)
            W == SelectSeq(E, LAMBDA e : e.written)
            keys == [i \in 1..Len(E) |-> <<E[i].key, E[i].value>>]
            written == [i \in 1..Len(W) |-> <<W[i].from, W[i].key, W[i].value>>]
        IN  /\ IsPrefix(KeysWritten, written)
            /\ debug_level = 1 => IsPrefix(KeysLogged, keys)
            /\ Resolved => /\ KeysWritten = written
                           /\ debug_level = 1 => KeysLogged = keys

\* C23 witness: A holds k, use B, j and B holds k, use A, m; the resolution
\* of A has processed k of A, use B, k of B, use A, m of B, j of A
C23_Witness ==
    /\ Resolved
    /\ call.section = SecA
    /\ debug_level = 1
    /\ KeysLogged = << <<kK, v1>>, <<UseKey(SecB), v1>>, <<kK, v2>>,
                       <<UseKey(SecA), v2>>, <<kM, v2>>, <<kJ, v1>> >>
    /\ KeysWritten = << <<SecA, kK, v1>>, <<SecB, kK, v2>>,
                        <<SecB, kM, v2>>, <<SecA, kJ, v1>> >>

-----------------------------------------------------------------------------
(* Properties of the in-flight set *)

\* the sections on the recursion path, from the root to the one being walked
PathNames == {stack[i].name : i \in 1..Len(stack)}

\* a walk is entered, a walk returns to the section that used it
Enters == pc = "walk" /\ pc' = "walk" /\ Len(stack') = Len(stack) + 1
Returns == pc = "walk" /\ pc' = "walk" /\ Len(stack') = Len(stack) - 1

\* C24: while a top-level resolution walks, the in-flight set is the set of
\* the sections on the recursion path, whose first is the root, and no
\* section is on the path twice; a walk that is entered adds its section,
\* which was not in the set, and a walk that returns removes its section.
C24_InFlightIsPath ==
    /\ [](pc = "walk" =>
             /\ processed_sections = PathNames
             /\ stack[1].name = call.walks[Len(call.walks)]
             /\ \A i, j \in 1..Len(stack) : stack[i].name = stack[j].name => i = j)
    /\ [][/\ Enters =>
                /\ stack'[Len(stack')].name \notin processed_sections
                /\ processed_sections' = processed_sections \cup {stack'[Len(stack')].name}
          /\ Returns =>
                /\ Top.name \in processed_sections
                /\ processed_sections' = processed_sections \ {Top.name}]_vars

\* C24 witness: the walk of A has entered B and from B has entered C: the
\* in-flight set holds the three
C24_Witness ==
    /\ pc = "walk"
    /\ Len(stack) = 3
    /\ stack[1].name = SecA
    /\ stack[2].name = SecB
    /\ stack[3].name = SecC
    /\ processed_sections = {SecA, SecB, SecC}

-----------------------------------------------------------------------------
(* Properties of sections reached along several paths *)

\* no section reaches itself along `use` keys
Acyclic ==
    \A n \in DOMAIN configdata :
        n \notin ReachFrom(UseTargets(n), Cardinality(DOMAIN configdata) + 1)

RECURSIVE PathCount(_, _, _)
\* the number of `use` paths of at most k steps from section m to section n
PathCount(m, n, k) ==
    IF m = n THEN 1
    ELSE IF k = 0 \/ m \notin DOMAIN configdata THEN 0
    ELSE LET via(t) == IF t \in UseTargets(m) THEN PathCount(t, n, k - 1) ELSE 0
         IN  via(SecA) + via(SecB) + via(SecC)

\* how many keys of section n the generic handler was handed
WrittenFrom(n) == Len(SelectSeq(call.writes, LAMBDA w : w.from = n))

\* C25: in an acyclic include graph no cycle is ever reported, and when the
\* resolution has returned every section has had its keys processed once
\* for each path from the root to it; in any graph, a cycle is reported only
\* for a target that is on the recursion path.
C25_CycleOnlyForAncestor ==
    /\ [](Acyclic =>
             /\ events = <<>>
             /\ Resolved =>
                    \A n \in DOMAIN configdata :
                        WrittenFrom(n) =
                            PathCount(call.section, n, Cardinality(DOMAIN configdata))
                            * Cardinality(GenericKeys(n)))
    /\ [][(pc = "walk" /\ Len(events') > Len(events)) => op2 \in PathNames]_vars

\* C25 witness: A uses B and C, C uses B, B uses nothing; the resolution of
\* A has returned, the key of B was processed twice and no cycle reported
C25_Witness ==
    /\ Resolved
    /\ call.section = SecA
    /\ configdata = [n \in {SecA, SecB, SecC} |->
                        <<Entry(kK, v1)>> \o
                        UseKeys(IF n = SecA THEN {SecB, SecC}
                                ELSE IF n = SecC THEN {SecB} ELSE {})]
    /\ WrittenFrom(SecB) = 2
    /\ WrittenFrom(SecC) = 1
    /\ events = <<>>

-----------------------------------------------------------------------------
(* Properties of sections the provider does not know *)

\* a query on a section the provider does not know has returned
UnknownQueried ==
    /\ pc = "idle"
    /\ call.op \in SectionQueries
    /\ call.section # EmptyStr
    /\ call.section \notin DOMAIN configdata

\* what a query gives for a section that is absent
AbsentOutcome ==
    IF call.op = "has_section" THEN call.ret = RetBool(FALSE)
    ELSE call.ret = RetRaise("KeyError")

-----------------------------------------------------------------------------
(* Properties of the trace *)

\* how many walks are open after the first n events of the trace
OpenWalks(n) ==
    Len(SelectSeq(SubSeq(loginfo, 1, n), LAMBDA e : e.type = "section-entry"))
    - Len(SelectSeq(SubSeq(loginfo, 1, n), LAMBDA e : e.type = "section-exit"))

\* C27: with diagnostics enabled, the trace of a top-level resolution that
\* has entered its root starts with the section-entry of that root and the
\* walk of the root stays open until the last event; when the call has
\* returned, the last event is the section-exit of the root and closes it:
\* the trace holds one top-level walk, that of this call.
C27_TraceOfThisCall ==
    (call.op = "parse_configuration" /\ call.walks # <<>> /\ debug_level = 1) =>
        /\ loginfo # <<>>
        /\ loginfo[1] = [type |-> "section-entry", name |-> call.section]
        /\ \A n \in 1..(Len(loginfo) - 1) : OpenWalks(n) > 0
        /\ Resolved =>
               /\ loginfo[Len(loginfo)] = [type |-> "section-exit", name |-> call.section]
               /\ OpenWalks(Len(loginfo)) = 0

\* C27 witness: after a resolution of A, the resolution of B, whose one key
\* is generic, has returned: the trace holds the six events of B
C27_Witness ==
    /\ Resolved
    /\ debug_level = 1
    /\ call.section = SecB
    /\ SecA \in sections_checked
    /\ configdata[SecB] = <<Entry(kK, v2)>>
    /\ Len(loginfo) = 6
    /\ loginfo[1] = [type |-> "section-entry", name |-> SecB]
    /\ loginfo[6] = [type |-> "section-exit", name |-> SecB]

-----------------------------------------------------------------------------
(* Properties of a reassigned source *)

\* the values the provider holds for option o of section s
ProviderValues(s, o) ==
    IF s \notin DOMAIN configdata THEN {}
    ELSE {StripQuotes(Strip(configdata[s][i].value)) :
             i \in {j \in 1..Len(configdata[s]) : Strip(configdata[s][j].key) = o}}

\* C29 (as claimed): whatever files inifilepath was assigned, a query of the
\* view reflects the source at hand: has_section is true only of a section
\* of that source, and get returns a value that source holds for the option.
C29_ReloadResetsView ==
    /\ (Returned("has_section") /\ call.ret = RetBool(TRUE)) =>
           call.section \in DOMAIN configdata
    /\ (Returned("get") /\ call.ret.kind = "str") =>
           call.ret.s \in ProviderValues(call.section, call.option)

-----------------------------------------------------------------------------
(* Properties of the trace collector *)

\* both instances have returned from the same operation
BothReturned == turn = "second" /\ pc = "idle" /\ call.op # "none"

\* C28: an instance with debug level 0 has an empty trace at every point of
\* any sequence of operations; and when an instance with debug level 0 and
\* one with debug level 1 on the same file have been given the same sequence
\* of operations, they have the same view contents, the same checked set
\* and the same outcome of every operation.
C28_TraceInert ==
    /\ debug_level = 0 => loginfo = <<>>
    /\ BothReturned =>
           /\ debug_level = 1
           /\ twin.debug_level = 0
           /\ twin.loginfo = <<>>
           /\ SameOperation
           /\ data = twin.data
           /\ sections_checked = twin.sections_checked
           /\ call.ret = twin.call.ret
           /\ call.raised = twin.call.raised
           /\ events = twin.events

\* C28 witness: after has_section(A), get(A, k) has returned 1 on both
\* instances; the second holds a trace, the first holds none
C28_Witness ==
    /\ BothReturned
    /\ call.op = "get"
    /\ call.section = SecA
    /\ call.ret = RetStr(v1)
    /\ twin.call.ret = RetStr(v1)
    /\ SecA \in call.checked0
    /\ loginfo # <<>>
    /\ twin.loginfo = <<>>

-----------------------------------------------------------------------------
(* Properties of a resolution that failed *)

RECURSIVE Replay(_, _)
\* the view d after the writes ws, each stored unless its key is there
Replay(d, ws) ==
    IF ws = <<>> THEN d
    ELSE LET w == Head(ws)
             sec == IF w.section \in DOMAIN d THEN d[w.section] ELSE EmptyDict
             sec1 == IF w.key \in DOMAIN sec THEN sec ELSE DictPut(sec, w.key, w.value)
         IN  Replay(DictPut(d, w.section, sec1), Tail(ws))

\* the last resolution of the call was of a root the provider knows and
\* ended with not-found, which then came from a nested `use`
NestedNotFound ==
    /\ pc = "idle"
    /\ call.op \notin {"add_section", "set"}
    /\ call.walks # <<>>
    /\ call.walks[Len(call.walks)] \in DOMAIN configdata
    /\ call.raised = "KeyError"

\* C31: when the resolution of a root fails with not-found from a nested
\* `use`, the view holds all that was written before the failure and the
\* root is checked; and get or has_section on a checked section resolves
\* nothing, changes nothing and answers from what the view holds.
C31_NoRollback ==
    /\ NestedNotFound =>
           /\ call.walks[Len(call.walks)] \in sections_checked
           /\ data = Replay(call.data0, call.writes)
    /\ (pc = "idle" /\ call.op \in {"get", "has_section"}
                    /\ call.section \in call.checked0) =>
           /\ call.walks = <<>>
           /\ data = call.data0
           /\ sections_checked = call.checked0
           /\ call.op = "has_section" =>
                  call.ret = RetBool(call.section \in DOMAIN call.data0)
           /\ call.op = "get" =>
                  call.ret = IF /\ call.section \in DOMAIN call.data0
                                /\ call.option \in DOMAIN call.data0[call.section]
                             THEN RetStr(call.data0[call.section][call.option])
                             ELSE RetRaise("KeyError")

\* C31 witness: A holds k, use X, j and X is unknown; A is checked, the view
\* holds k of A and not j, and get(A, k) has returned 1 without a resolution
C31_Witness ==
    /\ Returned("get")
    /\ call.section = SecA
    /\ call.option = kK
    /\ configdata[SecA] = <<Entry(kK, v1), Entry(UseKey(SecX), v1), Entry(kJ, v1)>>
    /\ SecA \in call.checked0
    /\ call.walks = <<>>
    /\ call.ret = RetStr(v1)
    /\ kJ \notin DOMAIN data[SecA]

-----------------------------------------------------------------------------
(* Properties of the generic handler's status *)

\* C32 (as claimed): no call of the generic handler, whatever the op1 of
\* the key it records, leads to a report of a status other than success:
\* the exception control is never handed a WARNING with RuntimeError that
\* names _handler_generic.
C32_GenericNeverWarns ==
    \A i \in 1..Len(events) :
        (events[i].event = "WARNING" /\ events[i].exc = "RuntimeError")
        => events[i].handler # "_handler_generic"

-----------------------------------------------------------------------------
(* Properties of the nesting of the trace *)

RECURSIVE Nested(_, _, _)
\* the events of log from the i-th on nest, given the sections and handlers
\* that are open (innermost last): an exit closes the innermost open entry,
\* which is of the same section or handler; a handler is entered within a
\* section, a section within a `use` handler or at the start; a cycle is
\* detected within a `use` handler; at the end nothing is open
Nested(log, i, open) ==
    IF i > Len(log) THEN open = <<>>
    ELSE LET e == log[i]
             n == Len(open)
             top == open[n]
             inSection == n > 0 /\ top.kind = "section"
             inUse == n > 0 /\ top.kind = "handler" /\ top.name = "_handler_use"
         IN  CASE e.type = "section-entry" ->
                      /\ (n = 0 /\ i = 1) \/ inUse
                      /\ Nested(log, i + 1, Append(open, [kind |-> "section", name |-> e.name]))
               [] e.type = "section-exit" ->
                      /\ inSection
                      /\ top.name = e.name
                      /\ Nested(log, i + 1, SubSeq(open, 1, n - 1))
               [] e.type = "handler-entry" ->
                      /\ inSection
                      /\ Nested(log, i + 1, Append(open, [kind |-> "handler", name |-> e.name]))
               [] e.type = "handler-exit" ->
                      /\ n > 0
                      /\ top.kind = "handler"
                      /\ top.name = e.name
                      /\ Nested(log, i + 1, SubSeq(open, 1, n - 1))
               [] e.type = "cycle-detected" ->
                      /\ inUse
                      /\ Nested(log, i + 1, open)
               [] OTHER ->
                      /\ inSection
                      /\ Nested(log, i + 1, open)

\* how many events of a type the trace holds
CountOf(type) == Len(SelectSeq(loginfo, LAMBDA e : e.type = type))

\* C33: with diagnostics enabled, the trace of a top-level resolution that
\* has returned under the default policy is well nested: entries and exits
\* of sections and of handlers pair up like the recursion, the walk of a
\* `use` target lies within the entry and the exit of its `use` handler,
\* and a cycle is detected only within a `use` handler.
C33_TraceWellNested ==
    (Resolved /\ debug_level = 1 /\ exception_control_level = "default") =>
        /\ Nested(loginfo, 1, <<>>)
        /\ CountOf("section-entry") = CountOf("section-exit")
        /\ CountOf("handler-entry") = CountOf("handler-exit")

\* C33 witness: A holds k, use B, j and B holds k, use A, m; the resolution
\* of A has returned with the walk of B and the cycle back to A in its trace
C33_Witness ==
    /\ Resolved
    /\ debug_level = 1
    /\ exception_control_level = "default"
    /\ call.section = SecA
    /\ configdata[SecB] = <<Entry(kK, v2), Entry(UseKey(SecA), v2), Entry(kM, v2)>>
    /\ CountOf("cycle-detected") = 1
    /\ CountOf("section-entry") = 2
    /\ CountOf("handler-exit") = 6

====
